---- MODULE Spec2Model ----
(***************************************************************************)
(* Phase-equilibrium solving engine of sgtpy: the two-phase flash and the  *)
(* multiphase flash (lle / vlle), as state machines over one solver call.  *)
(*                                                                         *)
(* Arithmetic is exact rational arithmetic on pairs <<n, d>> (d > 0, in    *)
(* lowest terms).  The mixture is binary.  The equation of state is an     *)
(* external oracle: a deterministic table that returns equilibrium         *)
(* constants or reports a non-physical state.  The stability analysis      *)
(* (tpd_min), the binary three-phase solver (vlleb) and the square         *)
(* gradient theory solvers (sgt_mix, sgt_pure) are modelled by their loops. *)
(***************************************************************************)
EXTENDS Integers, Sequences, FiniteSets, TLC

VARIABLES solver, pc, nph, z, eos, bij, zarg, K, psi, E, X, err, errin, it, itacc, itin,
          iters, method, singlephase, zlen, tension, result, call, first, nmin,
          found, fixedVariable, fixedValue, guess, free, rhol, rhov, rho,
          stateLabels, v0, Xass0

vars == <<solver, pc, nph, z, eos, bij, zarg, K, psi, E, X, err, errin, it, itacc, itin,
          iters, method, singlephase, zlen, tension, result, call, first, nmin,
          found, fixedVariable, fixedValue, guess, free, rhol, rhov, rho,
          stateLabels, v0, Xass0>>

\* the arguments of the call
inputs == <<solver, nph, z, eos, bij, zarg, nmin, fixedVariable, fixedValue, guess,
            rhol, rhov, stateLabels>>
\* initial guesses of the phase volumes and of the non-bonded association
\* site fractions, taken from a previous result (none: the empty tuple)
seeds == <<v0, Xass0>>
\* density vectors of the profile solved last, one per position
profile == <<rho>>
\* unknown specification of the binary three-phase solver (T at given P, P at
\* given T)
vllestate == <<free>>
\* interfacial length and tension of the density-profile solvers
sgtstate == <<zlen, tension>>
\* rank of the call in a sequence of calls, and the result of the call before
session == <<call, first>>
\* minima the search of tpd_minimas has found
tpdstate == <<found>>

(* ------------------------------ bounds ------------------------------- *)
\* maximum number of ASS acceleration cycles (the ``nacc`` argument)
nacc == 2
\* outer iterations per acceleration cycle
AccPeriod == 2
\* iteration budget of the inner Newton loop of the multiflash
MaxInner == 2
\* iteration budget of the minimizer of the Gibbs energy
GibbsMaxIter == 1

(* ------------------------- rational arithmetic ------------------------ *)
Abs(n) == IF n < 0 THEN -n ELSE n

RECURSIVE GCD(_, _)
GCD(a, b) == IF b = 0 THEN a ELSE GCD(b, a % b)

\* n/d in lowest terms with a positive denominator
Rat(n, d) ==
    LET s == IF d < 0 THEN -1 ELSE 1
    IN  CHOOSE r \in { <<(s * n) \div g, (s * d) \div g>> : g \in {GCD(Abs(n), Abs(d))} } : TRUE

Zero == <<0, 1>>
One == <<1, 1>>

\* sums over the least common denominator, products after cross-cancelling
AddVal(a, b, g) ==
    Rat(a[1] * (b[2] \div g) + b[1] * (a[2] \div g), (a[2] \div g) * b[2])
MulVal(a, b, g, h) ==
    Rat((a[1] \div g) * (b[1] \div h), (a[2] \div h) * (b[2] \div g))
Inv(b) == IF b[1] < 0 THEN <<-b[2], -b[1]>> ELSE <<b[2], b[1]>>

\* every operand is evaluated once, then combined
RAdd(a, b) ==
    CHOOSE r \in { AddVal(x, y, GCD(x[2], y[2])) : x \in {a}, y \in {b} } : TRUE
RSub(a, b) ==
    CHOOSE r \in { AddVal(x, <<-y[1], y[2]>>, GCD(x[2], y[2])) : x \in {a}, y \in {b} } : TRUE
RMul(a, b) ==
    CHOOSE r \in { MulVal(x, y, GCD(Abs(x[1]), y[2]), GCD(Abs(y[1]), x[2])) :
                   x \in {a}, y \in {b} } : TRUE
RDiv(a, b) ==
    CHOOSE r \in { MulVal(x, y, GCD(Abs(x[1]), y[2]), GCD(Abs(y[1]), x[2])) :
                   x \in {a}, y \in {Inv(b)} } : TRUE
RLt(a, b) == \E x \in {a}, y \in {b} : x[1] * y[2] < y[1] * x[2]
RLe(a, b) == \E x \in {a}, y \in {b} : x[1] * y[2] <= y[1] * x[2]

RECURSIVE RSum(_, _)
RSum(f, S) ==
    IF S = {} THEN Zero
    ELSE LET i == CHOOSE j \in S : TRUE IN RAdd(f[i], RSum(f, S \ {i}))

(* ------------------------------ inputs -------------------------------- *)
Comp == {1, 2}

\* global compositions z of the call
ZSet == { [i \in Comp |-> IF i = 1 THEN <<1, 4>> ELSE <<3, 4>>],
          [i \in Comp |-> <<1, 2>>] }

\* equilibrium constants K_i = phi_i(reference) / phi_i(phase) of one phase:
\* a lean phase, two phases rich in component 1, a phase rich in both
KVec(a, b) == [i \in Comp |-> IF i = 1 THEN a ELSE b]
KSet == { KVec(<<1, 2>>, <<1, 2>>), KVec(<<2, 1>>, <<1, 2>>),
          KVec(<<3, 1>>, <<1, 2>>), KVec(<<2, 1>>, <<2, 1>>) }

\* tolerance on the K-value update (K_tol)
K_tol == <<1, 100>>

Phases == 1 .. nph
\* the reference phase is the first one
NonRef == 2 .. nph

Solvers == {"flash", "multiflash", "tpd_min", "tpd_minimas", "lle_init", "vlleb",
            "sgt_mix", "msgt_mix", "sgt_pure"}

\* the searches for several minima of the tangent plane distance
MinimaSolvers == {"tpd_minimas", "lle_init"}

\* largest number of minima asked of tpd_minimas
MaxMin == 3

\* initial trial compositions of the stability analysis, and the composition
\* grid of the three-phase boundary solver
W0Set == { [i \in Comp |-> IF i = 1 THEN <<1, 4>> ELSE <<3, 4>>],
           [i \in Comp |-> IF i = 1 THEN <<3, 4>> ELSE <<1, 4>>] }

\* interfacial lengths a caller gives to msgt_mix
ZArgSet == {10, 20}

\* cross-correction beta_ij of the influence parameter of the call
BijSet == { <<0, 1>>, <<1, 4>> }

\* the phases of a three-phase call: lean phases or phases rich in component 1
KSet3 == { KVec(<<1, 2>>, <<1, 2>>), KVec(<<2, 1>>, <<1, 2>>) }

(* ----------------------- convergence measures ------------------------- *)
Sq(a) == RMul(a, a)

\* squared change of the equilibrium constants between two outer iterations
Dist(Kn, Ko) ==
    RSum([k \in DOMAIN Kn |->
            RSum([i \in Comp |-> Sq(RSub(Kn[k][i], Ko[k][i]))], Comp)],
         DOMAIN Kn)

Converged(e) == RLe(e, K_tol)

(* --------------------- Rachford-Rice mass balance --------------------- *)
\* FO(psi) = sum_i z_i (K_i - 1) / (1 + psi (K_i - 1))
RRf(b, Kv, zv) ==
    RSum([i \in Comp |->
            RDiv(RMul(zv[i], RSub(Kv[i], One)),
                 RAdd(One, RMul(b, RSub(Kv[i], One))))], Comp)

\* product of the K_i - 1: zero when FO has no isolated root
KProd(Kv) == RMul(RSub(Kv[1], One), RSub(Kv[2], One))

\* the root of FO for a binary mixture
RRroot(Kv, zv) ==
    RDiv(RSub(Zero, RSum([i \in Comp |-> RMul(zv[i], RSub(Kv[i], One))], Comp)),
         KProd(Kv))

InUnit(b) == RLt(Zero, b) /\ RLt(b, One)

\* a Rachford-Rice solver that keeps its mid-point guess when FO has no
\* root in (0,1)
rachfordrice_KeepGuess(Kv, zv) ==
    IF KProd(Kv) # Zero /\ InUnit(RRroot(Kv, zv))
    THEN [beta |-> RRroot(Kv, zv), singlephase |-> FALSE]
    ELSE [beta |-> <<1, 2>>, singlephase |-> TRUE]

\* a root outside (0,1) is the trivial single-phase solution: the phase
\* fraction is set on the side the mass balance points to
rachfordrice(Kv, zv) ==
    IF KProd(Kv) # Zero /\ InUnit(RRroot(Kv, zv))
    THEN [beta |-> RRroot(Kv, zv), singlephase |-> FALSE]
    ELSE IF RLe(RRf(Zero, Kv, zv), Zero)
         THEN [beta |-> Zero, singlephase |-> TRUE]
         ELSE [beta |-> One, singlephase |-> TRUE]

(* ------------------------ composition update -------------------------- *)
\* a composition update that never renormalises
Normalise_None(v) == v

Normalise(v) == [i \in Comp |-> RDiv(v[i], RSum(v, Comp))]

\* 1 + sum_{j # r} psi_j (K_ij exp(theta_j) - 1)
Denom(ps, Ev, Kv, i) ==
    RAdd(One, RSum([j \in DOMAIN ps |->
                      RMul(ps[j], RSub(RMul(Kv[j][i], Ev[j]), One))], DOMAIN ps))

\* an update that takes the feed for the reference phase
UpdateX_FromFeed(ps, Ev, Kv, zv) ==
    [p \in {1} \cup DOMAIN ps |->
        IF p = 1 THEN Normalise(zv)
        ELSE Normalise([i \in Comp |-> RMul(zv[i], RMul(Kv[p][i], Ev[p]))])]

\* x_ir = z_i / D_i for the reference phase, x_ik = x_ir K_ik exp(theta_k)
\* for the others; every phase is renormalised
UpdateX(ps, Ev, Kv, zv) ==
    LET xr == [i \in Comp |-> RDiv(zv[i], Denom(ps, Ev, Kv, i))]
    IN  [p \in {1} \cup DOMAIN ps |->
            IF p = 1 THEN Normalise(xr)
            ELSE Normalise([i \in Comp |-> RMul(xr[i], RMul(Kv[p][i], Ev[p]))])]

(* ------------- multiphase mass balance with stability variables ------- *)
\* The stability variable theta_k is carried as E_k = exp(theta_k):
\* theta_k = 0 iff E_k = 1, theta_k > 0 iff E_k > 1.
ThetaZero(e) == e = One
ThetaPos(e) == RLt(One, e)

\* left-hand side of the equation of phase k
MassBal(k, ps, Ev, Kv, zv) ==
    RSum([i \in Comp |->
            RDiv(RMul(zv[i], RSub(RMul(Kv[k][i], Ev[k]), One)),
                 Denom(ps, Ev, Kv, i))], Comp)

\* residual of the inner system: the equations and psi_k theta_k = 0
Resid(ps, Ev, Kv, zv) ==
    RSum([k \in DOMAIN ps |->
            RAdd(Sq(MassBal(k, ps, Ev, Kv, zv)),
                 Sq(RMul(ps[k], RSub(Ev[k], One))))], DOMAIN ps)

\* exp(theta_b) of an absent phase b, given the reference composition xr
EAbsent(b, xr, Kv) == RDiv(RSum(xr, Comp), RSum([i \in Comp |-> RMul(xr[i], Kv[b][i])], Comp))

\* the solution with only phase a (or none, a = 1) present beside the reference
SolWith(a, Kv, zv) ==
    LET pa == IF a = 1 THEN Zero ELSE RRroot(Kv[a], zv)
        xr == [i \in Comp |->
                 IF a = 1 THEN zv[i]
                 ELSE RDiv(zv[i], RAdd(One, RMul(pa, RSub(Kv[a][i], One))))]
    IN  [psi |-> [k \in DOMAIN Kv |-> IF k = a THEN pa ELSE Zero],
         E |-> [k \in DOMAIN Kv |-> IF k = a THEN One ELSE EAbsent(k, xr, Kv)]]

\* roots taken without the test on the stability variables of the absent
\* phases
Sols_NoStabilityCheck(Kv, zv) ==
    { SolWith(a, Kv, zv) : a \in
        { a \in {1} \cup DOMAIN Kv :
            a # 1 => KProd(Kv[a]) # Zero /\ InUnit(RRroot(Kv[a], zv)) } }

\* the roots of the inner system the Newton iteration can converge to:
\* phase fractions in [0,1), stability variables >= 0, complementary
Sols(Kv, zv) ==
    { SolWith(a, Kv, zv) : a \in
        { a \in {1} \cup DOMAIN Kv :
            /\ a # 1 => KProd(Kv[a]) # Zero /\ InUnit(RRroot(Kv[a], zv))
            /\ \A b \in DOMAIN Kv \ {a} :
                 RLe(One, SolWith(a, Kv, zv).E[b]) } }

\* iterates of the Newton iteration that are not roots; every step is
\* projected on psi >= 0, theta >= 0
PsiGrid == { Zero, <<1, 4>> }
EGrid == { One, <<2, 1>> }
Project(ps, Ev) ==
    [psi |-> [k \in DOMAIN ps |-> IF RLt(ps[k], Zero) THEN Zero ELSE ps[k]],
     E |-> [k \in DOMAIN Ev |-> IF RLt(Ev[k], One) THEN One ELSE Ev[k]]]
RawIterates(D) ==
    { [psi |-> [k \in D |-> r[1]], E |-> [k \in D |-> r[2]]] :
        r \in { <<p, e>> \in (PsiGrid \cup {<<-1, 4>>}) \X (EGrid \cup {<<1, 2>>}) :
                   (p = <<1, 4>>) = (e = <<2, 1>>) } }
Iterates(Kv, zv) ==
    { q \in { Project(r.psi, r.E) : r \in RawIterates(DOMAIN Kv) } :
        ~Converged(Resid(q.psi, q.E, Kv, zv)) }

(* ------------------------------ oracle -------------------------------- *)
\* The equation of state is a deterministic function of the compositions it
\* is evaluated at.  It is a table over the two regions of the reference
\* phase's composition (leaner or not than the feed in component 1); in a
\* region it returns the equilibrium constants of the non-reference
\* phases, or reports a non-physical state (no density root).
NonPhysical(n) == [ok |-> FALSE, K |-> [k \in 2 .. n |-> [i \in Comp |-> One]]]
Region(Xv, zv) == IF RLt(Xv[1][1], zv[1]) THEN "lean" ELSE "rich"
Regions == {"lean", "rich"}
OracleK(n) == IF n = 3 THEN [2 .. n -> KSet3] ELSE [2 .. n -> KSet]
OracleOut(n) == { [ok |-> TRUE, K |-> Kn] : Kn \in OracleK(n) } \cup {NonPhysical(n)}
EosSet(n) == [Regions -> OracleOut(n)]
Fugacity(Xv) == eos[Region(Xv, z)]

\* an oracle failure that is left to propagate as an exception
OnOracleFailure_Raise == "raised"

\* where flash and multiflash go when the oracle reports a non-physical
\* state: the iteration is abandoned for the Gibbs energy minimization
OnOracleFailure == "gibbs"

\* table of the calls that take no equilibrium constants from the oracle
NoFugacity(n) == [r \in Regions |-> NonPhysical(n)]
\* the tables that are physical everywhere
Physical(n) == [Regions -> { o \in OracleOut(n) : o.ok }]

\* The searches for several minima evaluate the oracle at trial compositions
\* over the whole range: the table has a region poor in component 1, a
\* region rich in it, and the region between them.
RegionW(w) ==
    IF RLt(w[1], <<1, 3>>) THEN "lean"
    ELSE IF RLt(<<2, 3>>, w[1]) THEN "rich" ELSE "mid"
RegionsW == {"lean", "mid", "rich"}
\* z_i phi_i(z) / phi_i(w) per unit z_i, by region of the trial phase
KSetW == KSet \cup { KVec(<<1, 2>>, <<2, 1>>) }
EosSetW == [RegionsW -> { [ok |-> TRUE, K |-> Kn] : Kn \in [{2} -> KSetW] }]
\* aggregation states of the trial phase and of the mixture (stateW, stateZ)
TrialLabelSet == { <<"L", "L">>, <<"V", "L">> }
\* a trial phase that is the mixture itself (same composition, same
\* aggregation state) has the fugacity coefficients of the mixture
TrialK(o, w) ==
    IF w = z /\ stateLabels[1] = stateLabels[2]
    THEN [o EXCEPT !.K = [k \in DOMAIN o.K |-> [i \in Comp |-> One]]]
    ELSE o
FugacityW(w) == TrialK(eos[RegionW(w)], w)

\* vlleb(x0, w0, y0, T0, P, 'P', eos) and vlleb(x0, w0, y0, P0, T, 'T', eos):
\* the specification given (K or Pa) and the guess of the one that is not
GivenSet(var) == IF var = "T" THEN {350, 360} ELSE {101325, 50000}
GuessSet(var) == IF var = "T" THEN {40000} ELSE {350}
\* values the root-finder can end on for the unknown specification
FreeSet(var) == IF var = "T" THEN {40000, 50892, 50000} ELSE {350, 367, 360}

\* The binary three-phase solver varies T (or P): the table gives, at each
\* value of it, the equilibrium constants of the second liquid and of the
\* vapour.  Two pairs have a three-phase point, the third has none.
KPairsV ==
    { <<KVec(<<2, 1>>, <<1, 2>>), KVec(<<1, 2>>, <<5, 4>>)>>,
      <<KVec(<<3, 1>>, <<1, 2>>), KVec(<<1, 2>>, <<9, 8>>)>>,
      <<KVec(<<2, 1>>, <<1, 2>>), KVec(<<1, 2>>, <<1, 2>>)>> }
EosSetV(var) ==
    [FreeSet(var) -> { [ok |-> TRUE, K |-> [k \in 2 .. 3 |-> kp[k - 1]]] : kp \in KPairsV }]

\* K after an acceleration step: the extrapolation leaves a settled sequence
\* alone and otherwise moves K to another point
Accelerated(Kn, Ko) ==
    IF Kn = Ko THEN {Kn}
    ELSE { Ka \in OracleK(nph) : \A k \in DOMAIN Kn \ {2} : Ka[k] = Kn[k] }

(* ------------------------------ results ------------------------------- *)
NoResult == [method |-> "none"]

\* aggregation states of the two phases of a flash: 'LV' and 'LL'
LabelSet == { <<"L", "V">>, <<"L", "L">> }

\* volume root of a phase, as a level: the liquid root below the vapour one
LabelRoot(s) == IF s = "L" THEN 1 ELSE 2

\* molar volume of phase p: the root solved from the initial guess supplied
\* for it, and without one the root of the phase's aggregation state
Vol(p) == IF v0 = <<>> THEN LabelRoot(stateLabels[p]) ELSE v0[p]

\* fractions of non-bonded association sites of a phase of composition x,
\* X_i = 1 / (1 + x_i): one solution per composition, whatever the initial
\* guess of its iteration
XassOf(x) == [i \in Comp |-> RDiv(One, RAdd(One, x[i]))]

\* phase fractions of all phases: the reference phase takes the rest
Beta(ps) ==
    [p \in {1} \cup DOMAIN ps |->
        IF p = 1 THEN RSub(One, RSum(ps, DOMAIN ps)) ELSE ps[p]]

\* a full output whose residual is reported as met
FlashResult_MaskError(b, e, n, Xv, m) ==
    [beta |-> b, error |-> Zero, iter |-> n,
     X |-> Xv[1], v1 |-> Vol(1), Xass1 |-> XassOf(Xv[1]),
     Y |-> Xv[2], v2 |-> Vol(2), Xass2 |-> XassOf(Xv[2]), method |-> m]

\* full output of flash
FlashResult(b, e, n, Xv, m) ==
    [beta |-> b, error |-> e, iter |-> n,
     X |-> Xv[1], v1 |-> Vol(1), Xass1 |-> XassOf(Xv[1]),
     Y |-> Xv[2], v2 |-> Vol(2), Xass2 |-> XassOf(Xv[2]), method |-> m]

\* the reported stability variables: lle reports the one of its second
\* phase, vlle one per phase (the reference phase is stable: theta = 0)
Tetha(Ev) ==
    IF DOMAIN Ev = {2} THEN Ev
    ELSE [p \in {1} \cup DOMAIN Ev |-> IF p = 1 THEN One ELSE Ev[p]]

\* a full output that keeps only the phases with a zero stability variable
MultiflashResult_DropUnstable(ps, Ev, eo, ei, n, Xv, m) ==
    LET kept == { k \in DOMAIN Ev : ThetaZero(Ev[k]) }
    IN  [error_outer |-> eo, error_inner |-> ei, iter |-> n,
         beta |-> [p \in {1} \cup kept |-> Beta(ps)[p]],
         tetha |-> [k \in kept |-> Tetha(Ev)[k]],
         X |-> [p \in {1} \cup kept |-> Xv[p]], method |-> m]

\* full output of the multiflash (lle, vlle)
MultiflashResult(ps, Ev, eo, ei, n, Xv, m) ==
    [error_outer |-> eo, error_inner |-> ei, iter |-> n, beta |-> Beta(ps),
     tetha |-> Tetha(Ev), X |-> Xv, method |-> m]

\* bulk densities of the two phases in equilibrium (rhol = X / vl,
\* rhov = Y / vv), one entry per component, in density levels
RholSet == { <<4, 2>>, <<3, 3>> }
RhovSet == { <<1, 1>> }

(* ------------------------------- Init --------------------------------- *)
Init ==
    /\ solver \in Solvers
    /\ nph \in 2 .. 3
    /\ solver \in {"flash", "tpd_min", "tpd_minimas", "lle_init", "sgt_mix",
                  "msgt_mix", "sgt_pure"} => nph = 2
    /\ solver = "vlleb" => nph = 3
    /\ z \in ZSet
    /\ fixedVariable \in IF solver = "vlleb" THEN {"T", "P"} ELSE {"none"}
    /\ fixedValue \in IF solver = "vlleb" THEN GivenSet(fixedVariable) ELSE {0}
    /\ guess \in IF solver = "vlleb" THEN GuessSet(fixedVariable) ELSE {0}
    /\ free = guess
    /\ eos \in CASE solver \in {"flash", "multiflash"} -> EosSet(nph)
                 [] solver = "tpd_min" -> Physical(nph)
                 [] solver \in MinimaSolvers -> EosSetW
                 [] solver = "vlleb" -> EosSetV(fixedVariable)
                 [] OTHER -> {NoFugacity(nph)}
    /\ bij \in IF solver \in {"sgt_mix", "msgt_mix"} THEN BijSet ELSE {Zero}
    /\ zarg \in IF solver = "msgt_mix" THEN ZArgSet ELSE {0}
    /\ rhol \in IF solver \in {"sgt_mix", "msgt_mix"} THEN RholSet ELSE {<<0, 0>>}
    /\ rhov \in IF solver \in {"sgt_mix", "msgt_mix"} THEN RhovSet ELSE {<<0, 0>>}
    /\ rho = <<>>
    /\ stateLabels \in CASE solver = "flash" -> LabelSet
                         [] solver = "tpd_min" -> TrialLabelSet
                         [] solver \in MinimaSolvers -> { <<"L", "L">> }
                         [] OTHER -> {<<>>}
    /\ v0 = <<>>
    /\ Xass0 = <<>>
    /\ X \in IF solver = "tpd_min"
             THEN { [p \in 1 .. nph |-> IF p = 1 THEN w ELSE z] : w \in W0Set }
             ELSE { [p \in 1 .. nph |-> z] }
    /\ zlen = 0
    /\ tension = Zero
    /\ K = [k \in 2 .. nph |-> [i \in Comp |-> One]]
    /\ psi = [k \in 2 .. nph |-> Zero]
    /\ E = [k \in 2 .. nph |-> One]
    /\ pc = "start"
    /\ err = One
    /\ errin = One
    /\ it = 0
    /\ itacc = 0
    /\ itin = 0
    /\ iters = 0
    /\ method = "ASS"
    /\ singlephase = FALSE
    /\ result = NoResult
    /\ call = 1
    /\ first = NoResult
    /\ nmin \in CASE solver = "tpd_minimas" -> 1 .. MaxMin
                  [] solver = "lle_init" -> {2}
                  [] OTHER -> {0}
    /\ found = << >>

(* ---------------------------- two-phase flash ------------------------- *)
\* a start that takes the feed for both initial guesses
FlashBegin_FromFeed ==
    /\ pc = "start" /\ solver = "flash"
    /\ IF Fugacity([p \in Phases |-> z]).ok
       THEN K' = Fugacity([p \in Phases |-> z]).K /\ pc' = "ass"
       ELSE K' = K /\ pc' = OnOracleFailure
    /\ UNCHANGED <<inputs, seeds, vllestate, profile, session, tpdstate, sgtstate, psi, E, X, err, errin, it, itacc,
                   itin, iters, method, singlephase, result>>

\* first evaluation of the fugacity coefficients at the initial guesses
FlashBegin ==
    /\ pc = "start" /\ solver = "flash"
    /\ IF Fugacity(X).ok
       THEN K' = Fugacity(X).K /\ pc' = "ass"
       ELSE K' = K /\ pc' = OnOracleFailure
    /\ UNCHANGED <<inputs, seeds, vllestate, profile, session, tpdstate, sgtstate, psi, E, X, err, errin, it, itacc, itin,
                   iters, method, singlephase, result>>

\* counters after one outer iteration: every AccPeriod iterations one
\* acceleration cycle is counted
NextIt == IF it + 1 = AccPeriod THEN 0 ELSE it + 1
NextItacc == IF it + 1 = AccPeriod THEN itacc + 1 ELSE itacc

\* the K-values an outer iteration ends with, from the oracle's Kn
NewK(Kn) == IF it + 1 = AccPeriod THEN Accelerated(Kn, K) ELSE {Kn}

\* a cycle whose convergence test looks at the extrapolated K
FlashIter_TestOnAccelerated ==
    /\ pc = "ass" /\ solver = "flash"
    /\ ~Converged(err) /\ itacc < nacc
    /\ \E rr \in {rachfordrice(K[2], z)} :
       \E Xn \in {UpdateX([k \in NonRef |-> rr.beta], E, K, z)} :
           /\ psi' = [k \in NonRef |-> rr.beta]
           /\ singlephase' = rr.singlephase
           /\ X' = Xn
           /\ iters' = iters + 1
           /\ IF Fugacity(Xn).ok
              THEN \E Ka \in NewK(Fugacity(Xn).K) :
                      /\ K' = Ka
                      /\ err' = Dist(Ka, K)
                      /\ it' = NextIt
                      /\ itacc' = NextItacc
                      /\ pc' = "ass"
              ELSE /\ pc' = OnOracleFailure
                   /\ UNCHANGED <<K, err, it, itacc>>
    /\ UNCHANGED <<inputs, seeds, vllestate, profile, session, tpdstate, sgtstate, E, errin, itin, method, result>>

\* one cycle of the ASS loop: Rachford-Rice, composition update, new
\* fugacity coefficients (with the extrapolated K every AccPeriod cycles);
\* a non-physical state ends the loop and hands over to the minimization
FlashIter ==
    /\ pc = "ass" /\ solver = "flash"
    /\ ~Converged(err) /\ itacc < nacc
    /\ \E rr \in {rachfordrice(K[2], z)} :
       \E Xn \in {UpdateX([k \in NonRef |-> rr.beta], E, K, z)} :
           /\ psi' = [k \in NonRef |-> rr.beta]
           /\ singlephase' = rr.singlephase
           /\ X' = Xn
           /\ iters' = iters + 1
           /\ IF Fugacity(Xn).ok
              THEN \E Ka \in NewK(Fugacity(Xn).K) :
                      /\ K' = Ka
                      /\ err' = Dist(Fugacity(Xn).K, K)
                      /\ it' = NextIt
                      /\ itacc' = NextItacc
                      /\ pc' = "ass"
              ELSE /\ pc' = OnOracleFailure
                   /\ UNCHANGED <<K, err, it, itacc>>
    /\ UNCHANGED <<inputs, seeds, vllestate, profile, session, tpdstate, sgtstate, E, errin, itin, method, result>>

\* a converged loop that hands its solution to the minimization
FlashConverged_Polish ==
    /\ pc = "ass" /\ solver = "flash"
    /\ Converged(err)
    /\ pc' = "gibbs"
    /\ UNCHANGED <<inputs, seeds, vllestate, profile, session, tpdstate, sgtstate, K, psi, E, X, err, errin, it, itacc, itin,
                   iters, method, singlephase, result>>

\* the loop ended on its convergence test
FlashConverged ==
    /\ pc = "ass" /\ solver = "flash"
    /\ Converged(err)
    /\ pc' = "done"
    /\ result' = FlashResult(psi[2], err, iters, X, method)
    /\ UNCHANGED <<inputs, seeds, vllestate, profile, session, tpdstate, sgtstate, K, psi, E, X, err, errin, it, itacc, itin,
                   iters, method, singlephase>>

\* a cycle limit that returns the last iterate of the loop
FlashFallback_ReturnLast ==
    /\ pc = "ass" /\ solver = "flash"
    /\ ~Converged(err) /\ itacc >= nacc
    /\ pc' = "done"
    /\ result' = FlashResult(psi[2], err, iters, X, method)
    /\ UNCHANGED <<inputs, seeds, vllestate, profile, session, tpdstate, sgtstate, K, psi, E, X, err, errin, it, itacc, itin,
                   iters, method, singlephase>>

\* the loop ended on its cycle limit
FlashFallback ==
    /\ pc = "ass" /\ solver = "flash"
    /\ ~Converged(err) /\ itacc >= nacc
    /\ pc' = "gibbs"
    /\ UNCHANGED <<inputs, seeds, vllestate, profile, session, tpdstate, sgtstate, K, psi, E, X, err, errin, it, itacc, itin,
                   iters, method, singlephase, result>>

\* flash is called again with the same z, T, P and with the compositions of
\* its converged result as initial guesses; nothing else of the first call
\* is kept
FlashAgain ==
    /\ pc = "done" /\ solver = "flash" /\ call = 1
    /\ Converged(result.error)
    /\ call' = 2
    /\ first' = result
    /\ X' = [p \in Phases |-> IF p = 1 THEN result.X ELSE result.Y]
    /\ K' = [k \in NonRef |-> [i \in Comp |-> One]]
    /\ psi' = [k \in NonRef |-> Zero]
    /\ E' = [k \in NonRef |-> One]
    /\ pc' = "start"
    /\ err' = One /\ errin' = One
    /\ it' = 0 /\ itacc' = 0 /\ itin' = 0 /\ iters' = 0
    /\ method' = "ASS"
    /\ singlephase' = FALSE
    /\ result' = NoResult
    /\ UNCHANGED <<inputs, seeds, vllestate, profile, sgtstate, tpdstate>>

\* a second call that changes the previous result it takes its volumes and
\* site fractions from: the site fractions are iterated in place
FlashWarm_InPlace ==
    /\ pc = "done" /\ solver = "flash" /\ call = 1
    /\ Converged(result.error)
    /\ call' = 2
    /\ first' = [result EXCEPT !.Xass1 = XassOf(z), !.Xass2 = XassOf(z)]
    /\ v0' = <<result.v1, result.v2>>
    /\ Xass0' = <<result.Xass1, result.Xass2>>
    /\ X' = [p \in Phases |-> z]
    /\ K' = [k \in NonRef |-> [i \in Comp |-> One]]
    /\ psi' = [k \in NonRef |-> Zero]
    /\ E' = [k \in NonRef |-> One]
    /\ pc' = "start"
    /\ err' = One /\ errin' = One
    /\ it' = 0 /\ itacc' = 0 /\ itin' = 0 /\ iters' = 0
    /\ method' = "ASS"
    /\ singlephase' = FALSE
    /\ result' = NoResult
    /\ UNCHANGED <<inputs, vllestate, profile, sgtstate, tpdstate>>

\* flash is called again with the same z, T, P and the same initial guesses
\* of the compositions, and with v0 = [sol.v1, sol.v2] and
\* Xass0 = [sol.Xass1, sol.Xass2] of its converged result sol
FlashWarm ==
    /\ pc = "done" /\ solver = "flash" /\ call = 1
    /\ Converged(result.error)
    /\ call' = 2
    /\ first' = result
    /\ v0' = <<result.v1, result.v2>>
    /\ Xass0' = <<result.Xass1, result.Xass2>>
    /\ X' = [p \in Phases |-> z]
    /\ K' = [k \in NonRef |-> [i \in Comp |-> One]]
    /\ psi' = [k \in NonRef |-> Zero]
    /\ E' = [k \in NonRef |-> One]
    /\ pc' = "start"
    /\ err' = One /\ errin' = One
    /\ it' = 0 /\ itacc' = 0 /\ itin' = 0 /\ iters' = 0
    /\ method' = "ASS"
    /\ singlephase' = FALSE
    /\ result' = NoResult
    /\ UNCHANGED <<inputs, vllestate, profile, sgtstate, tpdstate>>

(* ------------------- Gibbs free energy minimization ------------------- *)
\* mole numbers F_ik: the share of component i that phase k holds
Levels == IF nph = 2 THEN { <<1, 4>>, <<3, 4>> } ELSE { <<1, 4>>, <<1, 2>> }
Splits == { f \in [Phases -> Levels] : RSum(f, Phases) = One }

\* a minimum of G has equal fugacities in its phases: with the mass balance
\* it is a solution of the equilibrium equations at the oracle's K
PhysK == { eos[r].K : r \in { r \in Regions : eos[r].ok } }
StationaryAt(Kn) ==
    IF solver = "flash"
    THEN { [psi |-> [k \in NonRef |-> rachfordrice(Kn[2], z).beta],
            E |-> [k \in NonRef |-> One]] }
    ELSE Sols(Kn, z)
Stationary ==
    { s \in UNION { { [psi |-> q.psi, E |-> q.E, K |-> Kn,
                       X |-> UpdateX(q.psi, q.E, Kn, z)] : q \in StationaryAt(Kn) } :
                    Kn \in PhysK } :
        Fugacity(s.X).ok /\ Fugacity(s.X).K = s.K }

\* the minimizer stopped at a minimum, within its budget of iterations
GibbsConverged ==
    { [X |-> s.X, psi |-> s.psi, E |-> s.E, K |-> s.K, err |-> Zero, nit |-> n] :
        s \in Stationary, n \in 1 .. GibbsMaxIter }

\* the minimizer stopped on its budget, with its last mole numbers
GibbsStopped ==
    { LET F == [p \in Phases |-> [i \in Comp |-> RMul(a[i][p], z[i])]]
          b == [p \in Phases |-> RSum(F[p], Comp)]
          Xn == [p \in Phases |-> [i \in Comp |-> RDiv(F[p][i], b[p])]]
      IN  [X |-> Xn, psi |-> [k \in NonRef |-> b[k]], E |-> [k \in NonRef |-> One],
           K |-> [k \in NonRef |-> [i \in Comp |-> RDiv(Xn[k][i], Xn[1][i])]],
           err |-> One, nit |-> GibbsMaxIter] :
        a \in [Comp -> Splits] }

\* a minimization that leaves the method diagnostic of the ASS loop
GibbsMinimize_KeepsMethod ==
    /\ pc = "gibbs"
    /\ \E o \in GibbsConverged \cup GibbsStopped :
            /\ X' = o.X
            /\ psi' = o.psi
            /\ E' = o.E
            /\ K' = o.K
            /\ err' = o.err
            /\ iters' = iters + o.nit
            /\ method' = method
            /\ singlephase' = FALSE
            /\ result' = IF solver = "flash"
                         THEN FlashResult(o.psi[2], o.err, iters + o.nit, o.X, method)
                         ELSE MultiflashResult(o.psi, o.E, o.err, errin,
                                               iters + o.nit, o.X, method)
    /\ pc' = "done"
    /\ UNCHANGED <<inputs, seeds, vllestate, profile, session, tpdstate, sgtstate, errin, it, itacc, itin>>

\* min G = sum_k sum_i F_ik ln f_ik over the mole numbers, the mass balance
\* sum_k F_ik = z_i kept by construction; the minimizer stops at a minimum
\* or on its iteration budget, with its last mole numbers
GibbsMinimize ==
    /\ pc = "gibbs"
    /\ \E o \in GibbsConverged \cup GibbsStopped :
            /\ X' = o.X
            /\ psi' = o.psi
            /\ E' = o.E
            /\ K' = o.K
            /\ err' = o.err
            /\ iters' = iters + o.nit
            /\ method' = "Gibbs_minimization"
            /\ singlephase' = FALSE
            /\ result' = IF solver = "flash"
                         THEN FlashResult(o.psi[2], o.err, iters + o.nit, o.X,
                                          "Gibbs_minimization")
                         ELSE MultiflashResult(o.psi, o.E, o.err, errin,
                                               iters + o.nit, o.X,
                                               "Gibbs_minimization")
    /\ pc' = "done"
    /\ UNCHANGED <<inputs, seeds, vllestate, profile, session, tpdstate, sgtstate, errin, it, itacc, itin>>

(* ----------------------------- multiflash ----------------------------- *)
MFBegin ==
    /\ pc = "start" /\ solver = "multiflash"
    /\ IF Fugacity(X).ok
       THEN K' = Fugacity(X).K /\ pc' = "ass"
       ELSE K' = K /\ pc' = OnOracleFailure
    /\ UNCHANGED <<inputs, seeds, vllestate, profile, session, tpdstate, sgtstate, psi, E, X, err, errin, it, itacc, itin,
                   iters, method, singlephase, result>>

\* a new outer cycle starts with the inner loop
MFEnterInner ==
    /\ pc = "ass" /\ solver = "multiflash"
    /\ ~(Converged(err) /\ Converged(errin)) /\ itacc < nacc
    /\ pc' = "inner"
    /\ itin' = 0
    /\ errin' = One
    /\ UNCHANGED <<inputs, seeds, vllestate, profile, session, tpdstate, sgtstate, K, psi, E, X, err, it, itacc, iters, method,
                   singlephase, result>>

\* a Newton loop that does not count its steps
NextItin_Stuck == itin

\* counter of the inner loop after one step
NextItin == itin + 1

\* a Newton step that also substitutes the compositions and the K-values
MFNewton_UpdatesK ==
    /\ pc = "inner"
    /\ ~Converged(errin) /\ itin < MaxInner
    /\ \E q \in Sols(K, z) \cup Iterates(K, z) :
         /\ psi' = q.psi
         /\ E' = q.E
         /\ errin' = Resid(q.psi, q.E, K, z)
         /\ \E Xn \in {UpdateX(q.psi, q.E, K, z)} :
               /\ X' = Xn
               /\ K' = IF Fugacity(Xn).ok THEN Fugacity(Xn).K ELSE K
    /\ itin' = NextItin
    /\ UNCHANGED <<inputs, seeds, vllestate, profile, session, tpdstate, sgtstate, pc, err, it, itacc, iters, method,
                   singlephase, result>>

\* one Newton step on (psi, theta) at fixed K
MFNewton ==
    /\ pc = "inner"
    /\ ~Converged(errin) /\ itin < MaxInner
    /\ \E q \in Sols(K, z) \cup Iterates(K, z) :
         /\ psi' = q.psi
         /\ E' = q.E
         /\ errin' = Resid(q.psi, q.E, K, z)
    /\ itin' = NextItin
    /\ UNCHANGED <<inputs, seeds, vllestate, profile, session, tpdstate, sgtstate, pc, K, X, err, it, itacc, iters, method,
                   singlephase, result>>

\* the inner loop has ended: compositions and K-values are updated
MFOuter ==
    /\ pc = "inner"
    /\ Converged(errin) \/ itin >= MaxInner
    /\ \E Xn \in {UpdateX(psi, E, K, z)} :
           /\ X' = Xn
           /\ iters' = iters + 1
           /\ IF Fugacity(Xn).ok
              THEN \E Ka \in NewK(Fugacity(Xn).K) :
                      /\ K' = Ka
                      /\ err' = Dist(Fugacity(Xn).K, K)
                      /\ it' = NextIt
                      /\ itacc' = NextItacc
                      /\ pc' = "ass"
              ELSE /\ pc' = OnOracleFailure
                   /\ UNCHANGED <<K, err, it, itacc>>
    /\ UNCHANGED <<inputs, seeds, vllestate, profile, session, tpdstate, sgtstate, psi, E, errin, itin, method, singlephase,
                   result>>

\* an exit test that looks at the outer residual only
MFConverged_OuterOnly ==
    /\ pc = "ass" /\ solver = "multiflash"
    /\ Converged(err)
    /\ pc' = "done"
    /\ result' = MultiflashResult(psi, E, err, errin, iters, X, method)
    /\ UNCHANGED <<inputs, seeds, vllestate, profile, session, tpdstate, sgtstate, K, psi, E, X, err, errin, it, itacc, itin,
                   iters, method, singlephase>>

\* both residuals are below the tolerance
MFConverged ==
    /\ pc = "ass" /\ solver = "multiflash"
    /\ Converged(err) /\ Converged(errin)
    /\ pc' = "done"
    /\ result' = MultiflashResult(psi, E, err, errin, iters, X, method)
    /\ UNCHANGED <<inputs, seeds, vllestate, profile, session, tpdstate, sgtstate, K, psi, E, X, err, errin, it, itacc, itin,
                   iters, method, singlephase>>

\* a cycle limit that returns the last iterate of the loop
MFFallback_ReturnLast ==
    /\ pc = "ass" /\ solver = "multiflash"
    /\ ~(Converged(err) /\ Converged(errin)) /\ itacc >= nacc
    /\ pc' = "done"
    /\ result' = MultiflashResult(psi, E, err, errin, iters, X, method)
    /\ UNCHANGED <<inputs, seeds, vllestate, profile, session, tpdstate, sgtstate, K, psi, E, X, err,
                   errin, it, itacc, itin, iters, method, singlephase>>

\* the loop ended on its cycle limit
MFFallback ==
    /\ pc = "ass" /\ solver = "multiflash"
    /\ ~(Converged(err) /\ Converged(errin)) /\ itacc >= nacc
    /\ pc' = "gibbs"
    /\ UNCHANGED <<inputs, seeds, vllestate, profile, session, tpdstate, sgtstate, K, psi, E, X, err, errin, it, itacc, itin,
                   iters, method, singlephase, result>>

(* ------------------------ stability analysis ------------------------- *)
\* iteration budget of the successive substitution of tpd_min
TpdMaxIter == 3

\* tangent plane distance at a stationary point, in its modified form
\* 1 - sum_i W_i with W_i = z_i phi_i(z) / phi_i(w): it has the sign of tpd
TpdValue(Kv, zv) == RSub(One, RSum([i \in Comp |-> RMul(zv[i], Kv[i])], Comp))

\* tpd_min returns the composition of the minimum and its tpd value
TpdResult(w, t) == [W |-> w, tpd |-> t]

\* fugacity coefficients of the mixture z, kept for the whole call
TpdBegin ==
    /\ pc = "start" /\ solver = "tpd_min"
    /\ pc' = "ss"
    /\ UNCHANGED <<inputs, seeds, vllestate, profile, session, tpdstate, sgtstate, K, psi, E, X, err, errin, it, itacc, itin,
                   iters, method, singlephase, result>>

\* w_i proportional to z_i phi_i(z) / phi_i(w), renormalised; the test is on
\* the change of the composition between two steps
TpdIter ==
    /\ pc = "ss"
    /\ ~Converged(err) /\ it < TpdMaxIter
    /\ \E Kn \in {TrialK(Fugacity(X), X[1]).K} :
       \E w \in {Normalise([i \in Comp |-> RMul(z[i], Kn[2][i])])} :
           /\ X' = [X EXCEPT ![1] = w]
           /\ K' = Kn
           /\ err' = RSum([i \in Comp |-> Sq(RSub(w[i], X[1][i]))], Comp)
    /\ it' = it + 1
    /\ iters' = iters + 1
    /\ UNCHANGED <<inputs, seeds, vllestate, profile, session, tpdstate, sgtstate, pc, psi, E, errin, itacc, itin, method,
                   singlephase, result>>

TpdDone ==
    /\ pc = "ss"
    /\ Converged(err) \/ it >= TpdMaxIter
    /\ pc' = "done"
    /\ result' = TpdResult(X[1], TpdValue(K[2], z))
    /\ UNCHANGED <<inputs, seeds, vllestate, profile, session, tpdstate, sgtstate, K, psi, E, X, err, errin, it, itacc, itin,
                   iters, method, singlephase>>

(* ------------------- several minima: tpd_minimas ---------------------- *)
\* squared distance of two compositions
CompDist(x, y) == RSum([i \in Comp |-> Sq(RSub(x[i], y[i]))], Comp)

\* minima closer than this are the same minimum
MinimaTol == <<1, 100>>

\* every minimization from the same seed
Seed_Same(k) == KVec(<<1, 8>>, <<7, 8>>)

\* seed compositions, in the order they are tried: rich in the last
\* component, rich in the first one, then perturbations between them
Seed(k) ==
    IF k = 1 THEN KVec(<<1, 8>>, <<7, 8>>)
    ELSE IF k = 2 THEN KVec(<<7, 8>>, <<1, 8>>)
    ELSE KVec(Rat(k - 2, MaxMin), Rat(MaxMin - k + 2, MaxMin))

\* tpd at a trial composition w, in the modified form of TpdValue
TpdAt(w) == TpdValue(FugacityW(w).K[2], z)

\* one substitution step, and the minimization from w with n steps left
TpdStep(w) == Normalise([i \in Comp |-> RMul(z[i], FugacityW(w).K[2][i])])
RECURSIVE TpdFix(_, _)
TpdFix(w, n) ==
    IF n = 0 THEN w
    ELSE CHOOSE r \in { IF Converged(CompDist(wn, w)) THEN wn ELSE TpdFix(wn, n - 1) :
                         wn \in {TpdStep(w)} } : TRUE

\* tpd_min from the seed w0: the composition of the minimum and its tpd
TpdMinFrom(w0) ==
    CHOOSE r \in { TpdResult(w, TpdAt(w)) : w \in {TpdFix(w0, TpdMaxIter)} } : TRUE

\* m is none of the minima found so far
IsNew(m, fs) == \A k \in 1 .. Len(fs) : ~RLe(CompDist(fs[k].W, m.W), MinimaTol)

\* seeds a search for n minima tries
NSeeds(n) == n

MinimasBegin ==
    /\ pc = "start" /\ solver \in MinimaSolvers
    /\ pc' = "seeds"
    /\ UNCHANGED <<inputs, seeds, vllestate, profile, session, tpdstate, sgtstate, K, psi, E, X, err, errin, it,
                   itacc, itin, iters, method, singlephase, result>>

\* a search that keeps every minimum it reaches
MinimasSeed_KeepAll ==
    /\ pc = "seeds"
    /\ it < NSeeds(nmin)
    /\ \E m \in {TpdMinFrom(Seed(it + 1))} :
           found' = Append(found, m)
    /\ it' = it + 1
    /\ iters' = iters + 1
    /\ UNCHANGED <<inputs, seeds, vllestate, profile, session, sgtstate, pc, K, psi, E, X, err, errin, itacc,
                   itin, method, singlephase, result>>

\* the minimization from the next seed; its minimum is kept when it is
\* farther than MinimaTol from those found
MinimasSeed ==
    /\ pc = "seeds"
    /\ it < NSeeds(nmin)
    /\ \E m \in {TpdMinFrom(Seed(it + 1))} :
           found' = IF IsNew(m, found) THEN Append(found, m) ELSE found
    /\ it' = it + 1
    /\ iters' = iters + 1
    /\ UNCHANGED <<inputs, seeds, vllestate, profile, session, sgtstate, pc, K, psi, E, X, err, errin, itacc,
                   itin, method, singlephase, result>>

\* tpd_minimas returns the compositions of the minima and their tpd values
MinimasResult(fs) ==
    [minima |-> [k \in 1 .. Len(fs) |-> fs[k].W], tpd |-> [k \in 1 .. Len(fs) |-> fs[k].tpd]]

\* a choice of the single minimum found first
LleInitResult_First(fs) == [x0 |-> [k \in 1 .. 1 |-> fs[k].W]]

\* lle_init returns the compositions only
LleInitResult(fs) == [x0 |-> [k \in 1 .. Len(fs) |-> fs[k].W]]

MinimasDone ==
    /\ pc = "seeds"
    /\ it >= NSeeds(nmin)
    /\ pc' = "done"
    /\ result' = IF solver = "lle_init" THEN LleInitResult(found)
                 ELSE MinimasResult(found)
    /\ UNCHANGED <<inputs, seeds, vllestate, profile, session, tpdstate, sgtstate, K, psi, E, X, err, errin, it,
                   itacc, itin, iters, method, singlephase>>

(* ------------------- binary three-phase equilibrium ------------------- *)
\* budget of function evaluations of the root-finder
MaxFev == 2

\* both T and P taken from the unknowns of the root-finder
Given_Solved(var, s) == s

\* T and P of the result: the one given is the caller's, the other is the
\* last unknown of the root-finder
Given(var, s) == IF fixedVariable = var THEN fixedValue ELSE s

\* a full output whose residual is reported as met
VllebResult_MaskError(e, n, Xv, s) ==
    [T |-> Given("T", s), P |-> Given("P", s), error |-> Zero, nfev |-> n,
     X |-> Xv[1], W |-> Xv[2], Y |-> Xv[3]]

\* full output of vlleb: the specification and the solved unknown, the
\* residual, the evaluations and the three compositions
VllebResult(e, n, Xv, s) ==
    [T |-> Given("T", s), P |-> Given("P", s), error |-> e, nfev |-> n,
     X |-> Xv[1], W |-> Xv[2], Y |-> Xv[3]]

\* objective function of vlleb at the compositions Xv and the equilibrium
\* constants Kv: K_ik x_ir - x_ik = 0 and sum_i x_ik = 1, as a sum of squares
VllebObjective(Xv, Kv) ==
    RAdd(RSum([k \in DOMAIN Kv |->
                 RSum([i \in Comp |-> Sq(RSub(RMul(Kv[k][i], Xv[1][i]), Xv[k][i]))],
                      Comp)], DOMAIN Kv),
         RSum([p \in DOMAIN Xv |-> Sq(RSub(RSum(Xv[p], Comp), One))], DOMAIN Xv))

\* the point the root-finder is at for the equilibrium constants Kv: the
\* reference composition that solves the equations of the second phase,
\* and the compositions of the other phases that follow from it
VllebPoint(Kv) ==
    LET a == RDiv(RSub(One, Kv[2][2]), RSub(Kv[2][1], Kv[2][2]))
        xr == KVec(a, RSub(One, a))
    IN  [p \in Phases |->
            IF p = 1 THEN xr ELSE [i \in Comp |-> RMul(Kv[p][i], xr[i])]]

\* the stacked system (equal fugacities, compositions that sum to one) is
\* handed to a Newton-type root-finder, which stops at a root or on its
\* budget, with its last point
VllebRoot ==
    /\ pc = "start" /\ solver = "vlleb"
    /\ \E nfev \in 1 .. MaxFev, s \in FreeSet(fixedVariable) :
       \E Xn \in {VllebPoint(eos[s].K)} :
       \E e \in {VllebObjective(Xn, eos[s].K)} :
         /\ ~Converged(e) => nfev = MaxFev
         /\ X' = Xn
         /\ free' = s
         /\ err' = e
         /\ iters' = nfev
         /\ result' = VllebResult(e, nfev, Xn, s)
    /\ pc' = "done"
    /\ UNCHANGED <<inputs, seeds, profile, session, tpdstate, sgtstate, K, psi, E, errin, it, itacc, itin, method,
                   singlephase>>

(* ----------------------- square gradient theory ----------------------- *)
\* initial interfacial length of sgt_mix
z0 == 10
\* budget of domain extensions of sgt_mix
MaxGrow == 3
\* order of the quadrature of sgt_pure
QuadOrder == 2

\* determinant of the influence parameter matrix
\* c_ij = (1 - beta_ij) sqrt(c_ii c_jj), in units of c_11 c_22
CijDet(b) == RSub(One, Sq(RSub(One, b)))

\* interfacial tensions a solved profile can give
TenSet == { <<1, 2>>, <<1, 1>>, <<3, 2>> }

\* number of positions of the grid of a profile, the two ends included
NPts == 3

\* density vectors a solved profile can take inside the interface
DensSet == { <<2, 2>>, <<3, 1>>, <<1, 4>> }

\* positions of a profile on the length l, from 0 to l (none without length)
Grid(l) ==
    IF l = 0 THEN <<>> ELSE [j \in 1 .. NPts |-> Rat((j - 1) * l, NPts - 1)]

\* a profile whose ends are free: they take the density of the node next
\* to them
Profile_Open(in) ==
    [j \in 1 .. NPts |-> IF j = 1 THEN in[1]
                         ELSE IF j = NPts THEN in[NPts - 2] ELSE in[j - 1]]

\* profile of the boundary value problem: the densities of the inner
\* positions between the two bulk densities, which are the boundary values
Profile(in) ==
    [j \in 1 .. NPts |-> IF j = 1 THEN rhol
                         ELSE IF j = NPts THEN rhov ELSE in[j - 1]]

\* interfacial length of a result: its last position (0 without grid)
Length(r) == IF r.z = <<>> THEN Zero ELSE r.z[Len(r.z)]

TensionResult(t, l) == [tension |-> t, rho |-> rho, z |-> Grid(l)]

\* a start that does not look at the influence parameter matrix
SgtBegin_NoCheck ==
    /\ pc = "start" /\ solver = "sgt_mix"
    /\ pc' = "bvp" /\ zlen' = z0
    /\ UNCHANGED <<inputs, seeds, vllestate, profile, session, tpdstate, tension, K, psi, E, X, err, errin, it, itacc, itin,
                   iters, method, singlephase, result>>

\* sgt_mix needs a non-singular influence parameter matrix
SgtBegin ==
    /\ pc = "start" /\ solver = "sgt_mix"
    /\ IF CijDet(bij) = Zero
       THEN pc' = "raised" /\ zlen' = zlen
       ELSE pc' = "bvp" /\ zlen' = z0
    /\ UNCHANGED <<inputs, seeds, vllestate, profile, session, tpdstate, tension, K, psi, E, X, err, errin, it, itacc, itin,
                   iters, method, singlephase, result>>

\* a loop that solves again on the same length
NextLen_Same == zlen

\* the length of the next solve: the initial length, then twice the last one
NextLen == IF it = 0 THEN zlen ELSE 2 * zlen

\* the profile is solved on the initial length, then on a longer one while
\* the tension still changes (a short domain under-estimates it)
SgtSolve ==
    /\ pc = "bvp"
    /\ ~Converged(err) /\ it < MaxGrow
    /\ \E t \in TenSet :
         /\ RLe(tension, t)
         /\ tension' = t
         /\ err' = Sq(RSub(t, tension))
    /\ \E in \in [1 .. NPts - 2 -> DensSet] : rho' = Profile(in)
    /\ zlen' = NextLen
    /\ it' = it + 1
    /\ iters' = iters + 1
    /\ UNCHANGED <<inputs, seeds, vllestate, session, tpdstate, pc, K, psi, E, X, errin, itacc, itin, method,
                   singlephase, result>>

SgtDone ==
    /\ pc = "bvp"
    /\ Converged(err) \/ it >= MaxGrow
    /\ pc' = "done"
    /\ result' = TensionResult(tension, zlen)
    /\ UNCHANGED <<inputs, seeds, vllestate, profile, session, tpdstate, sgtstate, K, psi, E, X, err, errin, it, itacc, itin,
                   iters, method, singlephase>>

\* budget of pseudo-time steps of msgt_mix
MaxTime == 2

\* msgt_mix needs a non-singular influence parameter matrix as well; the
\* profile is relaxed on the interfacial length z of the call
MsgtBegin ==
    /\ pc = "start" /\ solver = "msgt_mix"
    /\ IF CijDet(bij) = Zero
       THEN pc' = "raised" /\ zlen' = zlen
       ELSE pc' = "msgt" /\ zlen' = zarg
    /\ UNCHANGED <<inputs, seeds, vllestate, profile, session, tpdstate, tension, K, psi, E, X, err, errin, it, itacc, itin,
                   iters, method, singlephase, result>>

\* a pseudo-time step that extends the interfacial length as sgt_mix does
MsgtStep_Grows ==
    /\ pc = "msgt"
    /\ ~Converged(err) /\ it < MaxTime
    /\ \E t \in TenSet :
         /\ tension' = t
         /\ err' = Sq(RSub(t, tension))
    /\ \E in \in [1 .. NPts - 2 -> DensSet] : rho' = Profile(in)
    /\ zlen' = NextLen
    /\ it' = it + 1
    /\ iters' = iters + 1
    /\ UNCHANGED <<inputs, seeds, vllestate, session, tpdstate, pc, K, psi, E, X, errin, itacc, itin, method,
                   singlephase, result>>

\* one pseudo-time step towards the stationary density profile
MsgtStep ==
    /\ pc = "msgt"
    /\ ~Converged(err) /\ it < MaxTime
    /\ \E t \in TenSet :
         /\ tension' = t
         /\ err' = Sq(RSub(t, tension))
    /\ \E in \in [1 .. NPts - 2 -> DensSet] : rho' = Profile(in)
    /\ zlen' = zlen
    /\ it' = it + 1
    /\ iters' = iters + 1
    /\ UNCHANGED <<inputs, seeds, vllestate, session, tpdstate, pc, K, psi, E, X, errin, itacc, itin, method,
                   singlephase, result>>

MsgtDone ==
    /\ pc = "msgt"
    /\ Converged(err) \/ it >= MaxTime
    /\ pc' = "done"
    /\ result' = TensionResult(tension, zlen)
    /\ UNCHANGED <<inputs, seeds, vllestate, profile, session, tpdstate, sgtstate, K, psi, E, X, err, errin, it, itacc, itin,
                   iters, method, singlephase>>

\* a quadrature that lays out a spatial grid of the initial length
SgtQuadNode_OnGrid ==
    /\ pc \in {"start", "quad"} /\ solver = "sgt_pure"
    /\ it < QuadOrder
    /\ \E f \in TenSet : tension' = RAdd(tension, f)
    /\ it' = it + 1
    /\ pc' = "quad"
    /\ zlen' = z0
    /\ UNCHANGED <<inputs, seeds, vllestate, profile, session, tpdstate, K, psi, E, X, err, errin, itacc, itin, iters,
                   method, singlephase, result>>

\* sgt_pure: one node of the quadrature of
\* sqrt(2 c) sqrt(a0 - rho mu0 + P0) between the bulk densities
SgtQuadNode ==
    /\ pc \in {"start", "quad"} /\ solver = "sgt_pure"
    /\ it < QuadOrder
    /\ \E f \in TenSet : tension' = RAdd(tension, f)
    /\ it' = it + 1
    /\ pc' = "quad"
    /\ UNCHANGED <<inputs, seeds, vllestate, profile, session, tpdstate, zlen, K, psi, E, X, err, errin, itacc, itin, iters,
                   method, singlephase, result>>

SgtQuadDone ==
    /\ pc = "quad"
    /\ it >= QuadOrder
    /\ pc' = "done"
    /\ result' = TensionResult(tension, zlen)
    /\ UNCHANGED <<inputs, seeds, vllestate, profile, session, tpdstate, sgtstate, K, psi, E, X, err, errin, it, itacc, itin,
                   iters, method, singlephase>>

(* --------------------------- specification ---------------------------- *)
Next ==
    \/ FlashBegin
    \/ FlashIter
    \/ FlashConverged
    \/ FlashFallback
    \/ FlashAgain
    \/ FlashWarm
    \/ GibbsMinimize
    \/ MFBegin
    \/ MFEnterInner
    \/ MFNewton
    \/ MFOuter
    \/ MFConverged
    \/ MFFallback
    \/ TpdBegin
    \/ TpdIter
    \/ TpdDone
    \/ MinimasBegin
    \/ MinimasSeed
    \/ MinimasDone
    \/ VllebRoot
    \/ SgtBegin
    \/ SgtSolve
    \/ SgtDone
    \/ MsgtBegin
    \/ MsgtStep
    \/ MsgtDone
    \/ SgtQuadNode
    \/ SgtQuadDone

Spec == Init /\ [][Next]_vars

(* ----------------------------- properties ----------------------------- *)
FlashSolvers == {"flash", "multiflash"}

\* the convergence test of the ASS loop
AssTestMet ==
    IF solver = "flash" THEN Converged(err) ELSE Converged(err) /\ Converged(errin)

\* residual and iteration count a full output carries
Residual(r) == IF solver = "multiflash" THEN r.error_outer ELSE r.error
Evaluations(r) == IF solver = "vlleb" THEN r.nfev ELSE r.iter

IsComposition(x) == (\A i \in Comp : RLe(Zero, x[i])) /\ RSum(x, Comp) = One

\* C1: when the ASS outer loop of flash or multiflash has used its nacc
\* cycles and its convergence test is not met, the call goes on with the
\* Gibbs energy minimization and returns nothing from the last ASS iterate.
C1_FallbackOnMaxCycles ==
    [][ (solver \in FlashSolvers /\ pc = "ass" /\ itacc >= nacc /\ ~AssTestMet)
            => (pc' = "gibbs" /\ result' = NoResult) ]_vars

C1_Witness ==
    /\ solver \in FlashSolvers /\ pc = "done"
    /\ itacc = nacc /\ result.method = "Gibbs_minimization"

\* iterations the ASS loop has left
OuterLeft == IF itacc >= nacc THEN 0 ELSE (nacc - itacc) * AccPeriod - it

\* steps a call has left at most: one per iteration every loop has left,
\* and the steps that begin and end the call
CallLeft ==
    CASE pc \in {"done", "raised"} -> 0
      [] pc = "gibbs" -> 1
      [] pc = "ass" -> 2 + OuterLeft * (IF solver = "flash" THEN 1 ELSE MaxInner + 2)
      [] pc = "inner" -> 3 + (OuterLeft - 1) * (MaxInner + 2) + (MaxInner - itin)
      [] pc = "ss" -> 1 + (TpdMaxIter - it)
      [] pc = "bvp" -> 1 + (MaxGrow - it)
      [] pc = "msgt" -> 1 + (MaxTime - it)
      [] pc = "seeds" -> 1 + (MaxMin - it)
      [] pc = "quad" -> 1 + (QuadOrder - it)
      [] pc = "start" -> 3 + nacc * AccPeriod * (MaxInner + 2) + TpdMaxIter
                           + MaxGrow + MaxTime + QuadOrder + MaxMin

\* steps of a first flash call count those of the call that can follow it
StepsLeft ==
    IF solver = "flash" /\ call = 1
    THEN CallLeft + 4 + nacc * AccPeriod * (MaxInner + 2) + TpdMaxIter
                  + MaxGrow + MaxTime + QuadOrder + MaxMin
    ELSE CallLeft

C5_OracleFailureFallsBack ==
    (solver \in FlashSolvers /\ pc # "start" /\ ~Fugacity(X).ok)
        => \/ pc = "gibbs"
           \/ pc = "done" /\ result.method = "Gibbs_minimization"

C5_Witness ==
    /\ solver \in FlashSolvers /\ pc = "done" /\ itacc < nacc
    /\ result.method = "Gibbs_minimization" /\ result.iter > GibbsMaxIter

C7_Complementarity ==
    (pc = "done" /\ solver = "multiflash" /\ Converged(result.error_outer))
        => \A k \in DOMAIN result.tetha :
              RMul(result.beta[k], RSub(result.tetha[k], One)) = Zero

C7_Witness ==
    /\ solver = "multiflash" /\ pc = "done" /\ result.method = "ASS"
    /\ \E k \in NonRef : ThetaPos(result.tetha[k])
    /\ \E j \in NonRef : RLt(Zero, result.beta[j])

C10_UnstableKeptWithZeroFraction ==
    (pc = "done" /\ solver = "multiflash" /\ Converged(result.error_outer))
        => /\ DOMAIN result.X = Phases /\ DOMAIN result.beta = Phases
           /\ \A k \in NonRef :
                /\ k \in DOMAIN result.tetha
                /\ ThetaPos(result.tetha[k]) => result.beta[k] = Zero

C10_Witness ==
    /\ solver = "multiflash" /\ pc = "done" /\ Converged(result.error_outer)
    /\ \E k \in NonRef : ThetaPos(result.tetha[k]) /\ k \in DOMAIN result.X

\* C10 as stated: no phase of a converged multiflash result has theta_k > 0.
C10_Original ==
    (pc = "done" /\ solver = "multiflash" /\ Converged(result.error_outer))
        => \A k \in DOMAIN result.tetha : ~ThetaPos(result.tetha[k])

\* fields of the full output of flash and of multiflash
ResultFields ==
    IF solver = "flash"
    THEN {"beta", "error", "iter", "X", "v1", "Xass1", "Y", "v2", "Xass2", "method"}
    ELSE {"error_outer", "error_inner", "iter", "beta", "tetha", "X", "method"}

\* C11: the method diagnostic of a flash or multiflash result names the
\* method that produced the returned values: 'ASS' exactly when the result
\* is returned by the ASS loop on its convergence test, 'Gibbs_minimization'
\* exactly when it is returned by the fallback; both results have the same
\* fields, so that the fallback shows in this diagnostic only.
C11_MethodNamesProducer ==
    [][ (solver \in FlashSolvers /\ pc # "done" /\ result' # result)
            => /\ result'.method \in {"ASS", "Gibbs_minimization"}
               /\ result'.method = "ASS" <=> (pc = "ass" /\ AssTestMet)
               /\ result'.method = "Gibbs_minimization" <=> pc = "gibbs"
               /\ DOMAIN result' = ResultFields
               /\ pc' = "done" ]_vars

C11_Witness ==
    /\ solver \in FlashSolvers /\ pc = "done"
    /\ result.method = "Gibbs_minimization" /\ Residual(result) = Zero
    /\ itacc >= nacc

\* the solvers of the density profiles of a mixture
SgtMixSolvers == {"sgt_mix", "msgt_mix"}

\* C12: a call of sgt_mix (or msgt_mix) whose influence parameter matrix is
\* singular raises an error: it never solves the discretized system (no
\* interfacial length is set, no solve is counted) and never returns a
\* result.
C12_SingularMatrixRaises ==
    (solver \in SgtMixSolvers /\ CijDet(bij) = Zero)
        => /\ pc \in {"start", "raised"}
           /\ zlen = 0 /\ it = 0 /\ iters = 0
           /\ result = NoResult

C12_Witness ==
    solver = "sgt_mix" /\ CijDet(bij) = Zero /\ pc = "raised"

\* the solvers of the square gradient theory
SgtSolvers == {"sgt_pure", "sgt_mix", "msgt_mix"}

\* no cross-correction: a pure fluid, or a mixture with beta_ij = 0
NoCrossCorrection == solver = "sgt_pure" \/ CijDet(bij) = Zero

C14_DomainGrowth ==
    /\ [][ (solver = "sgt_mix" /\ pc = "start" /\ pc' = "bvp")
                => zlen' = z0 /\ it' = 0 ]_vars
    /\ [][ (solver = "sgt_mix" /\ pc = "bvp" /\ pc' = "bvp")
                => /\ it' = it + 1
                   /\ err' = Sq(RSub(tension', tension))
                   /\ IF it = 0 THEN zlen' = z0 ELSE zlen' > zlen ]_vars
    /\ [][ (solver = "sgt_mix" /\ pc = "bvp")
                => /\ pc' = "done" <=> (Converged(err) \/ it >= MaxGrow)
                   /\ pc' = "done"
                        => result' = TensionResult(tension, zlen) ]_vars
    /\ []((solver = "sgt_mix" /\ pc = "bvp" /\ Converged(err)) => it >= 2)

C14_Witness ==
    /\ solver = "sgt_mix" /\ pc = "done"
    /\ Converged(err) /\ it = 2 /\ it < MaxGrow
    /\ Length(result) = Rat(2 * z0, 1)

\* the budget of domain growth is reached first
C14_WitnessBudget ==
    /\ solver = "sgt_mix" /\ pc = "done"
    /\ ~Converged(err) /\ it = MaxGrow /\ RLt(Rat(2 * z0, 1), Length(result))

\* C15: msgt_mix keeps the interfacial length fixed: from its first to its
\* last pseudo-time step the length is the one given by the caller (z), no
\* step changes it, and the positions of the result span that length.
C15_FixedLength ==
    /\ []((solver = "msgt_mix" /\ pc \in {"msgt", "done"}) => zlen = zarg)
    /\ []((solver = "msgt_mix" /\ pc = "done") => Length(result) = Rat(zarg, 1))
    /\ [][ (solver = "msgt_mix" /\ pc = "msgt") => zlen' = zlen ]_vars

C15_Witness ==
    /\ solver = "msgt_mix" /\ pc = "done"
    /\ it = MaxTime /\ zarg = 20 /\ Length(result) = Rat(20, 1)

\* C18: a flash called again with the compositions of a converged
\* FlashResult as initial guesses (same z, T, P) converges in a single
\* outer iteration of the ASS loop, without the fallback, and returns the
\* same compositions and phase fraction within the tolerance.
C18_FlashIdempotent ==
    /\ (solver = "flash" /\ call = 2 /\ v0 = <<>>)
            => pc \in {"start", "ass", "done"} /\ iters <= 1
    /\ (solver = "flash" /\ call = 2 /\ v0 = <<>> /\ pc = "done")
            => /\ result.iter = 1
               /\ result.method = "ASS"
               /\ Converged(result.error)
               /\ Converged(CompDist(result.X, first.X))
               /\ Converged(CompDist(result.Y, first.Y))
               /\ Converged(Sq(RSub(result.beta, first.beta)))

C18_Witness ==
    /\ solver = "flash" /\ call = 2 /\ v0 = <<>> /\ pc = "done"
    /\ first.method = "Gibbs_minimization"
    /\ result.iter = 1 /\ result.X = first.X /\ result.X # result.Y

\* the first result came from the ASS loop after more than one iteration
C18_WitnessASS ==
    /\ solver = "flash" /\ call = 2 /\ v0 = <<>> /\ pc = "done"
    /\ first.method = "ASS" /\ first.iter > 1
    /\ result.iter = 1 /\ result.X = first.X

\* C19: tpd_minimas(nmin, ...) returns at most nmin minima; any two of the
\* returned compositions are farther apart than the distance threshold;
\* the sequence of tpd values has the length of the sequence of
\* compositions and its k-th entry is the tpd of the k-th composition.
C19_MinimasDistinctAndTagged ==
    (solver = "tpd_minimas" /\ pc = "done")
        => /\ Len(result.minima) <= nmin
           /\ Len(result.tpd) = Len(result.minima)
           /\ \A j, k \in 1 .. Len(result.minima) :
                 j # k => ~RLe(CompDist(result.minima[j], result.minima[k]),
                               MinimaTol)
           /\ \A k \in 1 .. Len(result.minima) :
                 result.tpd[k] = TpdAt(result.minima[k])

C19_Witness ==
    /\ solver = "tpd_minimas" /\ pc = "done" /\ nmin = 3
    /\ Len(result.minima) = 2
    /\ result.tpd[1] # result.tpd[2]

\* as many minima as asked for
C19_WitnessAll ==
    /\ solver = "tpd_minimas" /\ pc = "done" /\ nmin = 3
    /\ Len(result.minima) = 3

\* the minima a search over the first n seeds finds
RECURSIVE Search(_)
Search(n) ==
    IF n = 0 THEN << >>
    ELSE CHOOSE r \in { IF IsNew(m, fs) THEN Append(fs, m) ELSE fs :
                         m \in {TpdMinFrom(Seed(n))}, fs \in {Search(n - 1)} } : TRUE

\* compositions lle_init has returned
Returned == { result.x0[k] : k \in DOMAIN result.x0 }

\* C20 as stated: lle_init returns, among the tpd minima found for z, T, P
\* (those tpd_minimas finds from all its seeds), the compositions of lowest
\* tpd: no minimum found and not returned has a tpd lower than a returned one.
C20_Original ==
    (solver = "lle_init" /\ pc = "done")
        => \A fs \in {Search(MaxMin)} : \A k \in 1 .. Len(fs) :
              fs[k].W \notin Returned
                  => \A r \in Returned : ~RLt(fs[k].tpd, TpdAt(r))

\* C20 (as amended): lle_init returns the minima of its own search for two
\* minima, from its two seeds: at most two compositions, distinct, each of
\* them a tpd minimum found for z, T, P, none of the minima of that search
\* left out; their tpd values play no part.
C20_ReturnsOwnMinima ==
    (solver = "lle_init" /\ pc = "done")
        => /\ Len(result.x0) <= 2
           /\ \A fs \in {Search(2)} :
                 Returned = { fs[k].W : k \in 1 .. Len(fs) }
           /\ \A fs \in {Search(MaxMin)} :
                 Returned \subseteq { fs[k].W : k \in 1 .. Len(fs) }
           /\ \A j, k \in 1 .. Len(result.x0) :
                 j # k => ~RLe(CompDist(result.x0[j], result.x0[k]), MinimaTol)

C20_Witness ==
    /\ solver = "lle_init" /\ pc = "done"
    /\ Len(result.x0) = 2
    /\ \E fs \in {Search(MaxMin)} : \E k \in 1 .. Len(fs) :
          /\ fs[k].W \notin Returned
          /\ \E r \in Returned : RLt(fs[k].tpd, TpdAt(r))

(* ------------------- C21: specification of vlleb ---------------------- *)
\* C21: a vlleb result reports the variable the caller fixed (T or P) with
\* the value the caller supplied, reports the other one as the unknown the
\* root-finder solved for, and carries the three phase compositions.
C21_FixedVariableKept ==
    (solver = "vlleb" /\ pc = "done")
        => /\ fixedVariable \in {"T", "P"}
           /\ fixedVariable = "T" => (result.T = fixedValue /\ result.P = free)
           /\ fixedVariable = "P" => (result.P = fixedValue /\ result.T = free)
           /\ {"X", "W", "Y"} \subseteq DOMAIN result
           /\ <<result.X, result.W, result.Y>> = <<X[1], X[2], X[3]>>

\* a call at given T whose solved pressure differs from the guess and from
\* the temperature given
C21_Witness ==
    /\ solver = "vlleb" /\ pc = "done" /\ fixedVariable = "T"
    /\ result.T = fixedValue /\ result.P # guess /\ result.P # result.T

UnstableZ ==
    \E w \in { Normalise([i \in Comp |-> RMul(z[i], eos[r].K[2][i])]) : r \in DOMAIN eos } :
        TpdStep(w) = w /\ RLt(TpdAt(w), Zero)

\* the mixture z is stable: the tpd is negative for no trial phase
StableZ ==
    \A r \in DOMAIN eos : RLe(Zero, TpdValue(eos[r].K[2], z))

\* C24 as stated, for a single-phase mixture: tpd_min returns a positive
\* tpd from every initial guess of the trial phase.
C24_Original ==
    (solver = "tpd_min" /\ pc = "done" /\ StableZ) => RLt(Zero, result.tpd)

\* C24 (as amended): for an unstable mixture the minimizations from the seeds
\* of tpd_minimas return a negative tpd for one seed at least; for a stable
\* mixture tpd_min returns from every initial guess a tpd that is not
\* negative, and that is zero only at the trial phase that is the mixture
\* itself (w = z in the same aggregation state).
C24_TpdSign ==
    /\ (solver = "tpd_minimas" /\ pc = "done" /\ nmin = MaxMin /\ UnstableZ)
            => \E k \in 1 .. Len(result.tpd) : RLt(result.tpd[k], Zero)
    /\ (solver = "tpd_min" /\ pc = "done" /\ StableZ)
            => /\ RLe(Zero, result.tpd)
               /\ result.tpd = Zero
                    => result.W = z /\ stateLabels[1] = stateLabels[2]

\* a search on an unstable mixture that found a minimum of negative tpd and
\* one of positive tpd
C24_Witness ==
    /\ solver = "tpd_minimas" /\ pc = "done" /\ nmin = MaxMin /\ UnstableZ
    /\ \E j, k \in 1 .. Len(result.tpd) :
         RLt(result.tpd[j], Zero) /\ RLt(Zero, result.tpd[k])

\* tpd_min on a stable mixture ends on the mixture itself, with tpd = 0
C24_WitnessTrivial ==
    /\ solver = "tpd_min" /\ pc = "done" /\ StableZ
    /\ result.tpd = Zero /\ result.W = z

\* tpd_min on a stable mixture returns a positive tpd
C24_WitnessStable ==
    /\ solver = "tpd_min" /\ pc = "done" /\ StableZ /\ Converged(err)
    /\ RLt(Zero, result.tpd) /\ result.W # z

(* --------------------- C25: equal fugacities --------------------------- *)
\* fugacity of the components in phase p, in units of the fugacity
\* coefficients of the reference phase: x_ip phi_ip / phi_ir = x_ip / K_ip
RelFug(Xv, Kv, p) ==
    IF p = 1 THEN Xv[1] ELSE [i \in Comp |-> RDiv(Xv[p][i], Kv[p][i])]

\* the phases of fractions bs that are present have equal fugacities, with
\* the fugacity coefficients the oracle o gives at the compositions Xv
EqualFugacity(Xv, o, bs) ==
    /\ o.ok
    /\ \A A, B \in { p \in DOMAIN bs : RLt(Zero, bs[p]) } :
         Converged(CompDist(RelFug(Xv, o.K, A), RelFug(Xv, o.K, B)))

\* compositions and phase fractions of a flash result, by phase
FlashX(r) == <<r.X, r.Y>>
FlashBeta(r) == <<RSub(One, r.beta), r.beta>>

C25_WitnessGibbs ==
    /\ solver = "flash" /\ pc = "done" /\ Converged(result.error)
    /\ result.method = "Gibbs_minimization"
    /\ RLt(Zero, result.beta) /\ RLt(result.beta, One)
    /\ result.X # result.Y

\* a converged multiflash result with two phases present and one absent
C25_WitnessMultiflash ==
    /\ solver = "multiflash" /\ pc = "done" /\ nph = 3
    /\ Converged(result.error_outer) /\ Converged(result.error_inner)
    /\ \E k \in NonRef : RLt(Zero, result.beta[k]) /\ result.X[k] # result.X[1]
    /\ \E k \in NonRef : result.beta[k] = Zero

\* a converged vlleb result with three distinct phases
C25_WitnessVlleb ==
    /\ solver = "vlleb" /\ pc = "done" /\ Converged(result.error)
    /\ result.X # result.W /\ result.W # result.Y /\ result.X # result.Y

(* ------------------ C26: when an iterate is returned ------------------- *)
\* the compositions a result carries
ResultX(r) ==
    CASE solver = "flash" -> FlashX(r)
      [] solver = "vlleb" -> <<r.X, r.W, r.Y>>
      [] OTHER -> r.X

\* the convergence criteria of the method that made r are met by its
\* residuals: both residuals for the ASS loop of multiflash, the residual
\* of the method otherwise
CriteriaMet(r) ==
    IF solver = "multiflash" /\ r.method = "ASS"
    THEN Converged(r.error_outer) /\ Converged(r.error_inner)
    ELSE Converged(Residual(r))

C27_InnerOuterAlternation ==
    /\ [][(solver = "multiflash" /\ pc = "inner" /\ pc' = "inner")
             => (K' = K /\ X' = X /\ err' = err
                   /\ (psi' # psi \/ E' # E \/ errin' # errin
                         \/ itin' # itin))]_vars
    /\ [][(solver = "multiflash" /\ pc \in {"ass", "inner"}
             /\ (K' # K \/ X' # X))
             => (pc = "inner" /\ pc' # "inner" /\ itin >= 1
                   /\ (Converged(errin) \/ itin >= MaxInner))]_vars
    /\ [][(solver = "multiflash" /\ pc = "ass")
             => (pc' \in {"inner", "gibbs", "done"} /\ K' = K /\ X' = X)]_vars
    /\ [][(solver = "multiflash" /\ pc = "ass" /\ pc' = "done")
             => (Converged(err) /\ Converged(errin)
                   /\ result'.method = "ASS"
                   /\ Converged(result'.error_outer)
                   /\ Converged(result'.error_inner))]_vars

C27_Witness ==
    /\ solver = "multiflash" /\ pc = "done" /\ result.method = "ASS"
    /\ result.iter >= 2 /\ itin >= 2
    /\ Converged(result.error_outer) /\ Converged(result.error_inner)


\* C28: within one call of flash or multiflash the Gibbs minimization starts
\* only when the ASS loop has stopped without converging, on its budget of
\* acceleration cycles or on a failure of the oracle at the compositions it
\* has reached.  The minimization ends the call with its own result, so it
\* starts at most once and the ASS loop is never resumed after it; an ASS
\* loop whose convergence test is met returns with method 'ASS' and the
\* minimization is not run.
C28_FallbackAfterAss ==
    /\ [][(solver \in FlashSolvers /\ pc' = "gibbs" /\ pc # "gibbs")
             => (/\ pc \in {"start", "ass", "inner"}
                 /\ method = "ASS" /\ call' = call
                 /\ \/ pc = "ass" /\ ~AssTestMet /\ itacc >= nacc /\ X' = X
                    \/ ~Fugacity(X').ok)]_vars
    /\ [][(solver \in FlashSolvers /\ pc = "gibbs")
             => (/\ pc' = "done" /\ call' = call
                 /\ method' = "Gibbs_minimization"
                 /\ result'.method = "Gibbs_minimization")]_vars
    /\ [][(solver \in FlashSolvers /\ pc = "ass" /\ AssTestMet)
             => (pc' = "done" /\ call' = call /\ method' = "ASS"
                   /\ result'.method = "ASS")]_vars
    /\ [][(solver \in FlashSolvers /\ pc = "done")
             => (pc' = "start" /\ call' = call + 1 /\ method' = "ASS")]_vars
    /\ [](solver \in FlashSolvers
             => /\ method = "Gibbs_minimization" => pc = "done"
                /\ pc = "done" => result.method = method)

\* the minimization ran after the budget of acceleration cycles was used
C28_Witness ==
    /\ solver \in FlashSolvers /\ pc = "done"
    /\ result.method = "Gibbs_minimization"
    /\ itacc >= nacc /\ Fugacity(X).ok

\* the minimization ran after a failure of the oracle, within the budget
C28_WitnessOracle ==
    /\ solver \in FlashSolvers /\ pc = "done"
    /\ result.method = "Gibbs_minimization"
    /\ itacc < nacc /\ iters >= 2

\* the ASS loop converged in its last cycle and the minimization did not run
C28_WitnessAss ==
    /\ solver \in FlashSolvers /\ pc = "done"
    /\ result.method = "ASS" /\ itacc >= nacc


\* phase fractions of a result, one per returned phase
ResultBeta(r) == IF solver = "flash" THEN FlashBeta(r) ELSE r.beta

\* sum over the phases of beta_k x_ik, for component i
PhaseSum(b, Xv, i) ==
    RSum([p \in DOMAIN Xv |-> RMul(b[p], Xv[p][i])], DOMAIN Xv)

\* C29: every converged result of flash and multiflash keeps the mass
\* balance of every component: the sum over the returned phases of
\* beta_k x_ik is the global composition z_i, for a result of the ASS loop
\* and for a result of the Gibbs minimization.
C29_MassBalance ==
    (pc = "done" /\ solver \in FlashSolvers /\ CriteriaMet(result))
        => /\ DOMAIN ResultBeta(result) = DOMAIN ResultX(result)
           /\ \A i \in Comp :
                 PhaseSum(ResultBeta(result), ResultX(result), i) = z[i]

\* an ASS result of flash with both phases present
C29_Witness ==
    /\ pc = "done" /\ solver = "flash" /\ CriteriaMet(result)
    /\ result.method = "ASS"
    /\ RLt(Zero, result.beta) /\ RLt(result.beta, One)
    /\ result.X # result.Y

\* a result of the Gibbs minimization with both phases present
C29_WitnessGibbs ==
    /\ pc = "done" /\ solver = "flash" /\ CriteriaMet(result)
    /\ result.method = "Gibbs_minimization"
    /\ RLt(Zero, result.beta) /\ RLt(result.beta, One)
    /\ result.X # result.Y

\* a multiflash result with an absent phase (beta_k = 0, theta_k > 0)
C29_WitnessAbsent ==
    /\ pc = "done" /\ solver = "multiflash" /\ CriteriaMet(result)
    /\ \E k \in NonRef : result.beta[k] = Zero /\ ThetaPos(result.tetha[k])

\* a multiflash result with every phase present
C29_WitnessMultiflash ==
    /\ pc = "done" /\ solver = "multiflash" /\ CriteriaMet(result)
    /\ \A p \in DOMAIN result.beta : RLt(Zero, result.beta[p])
    /\ \A p \in DOMAIN result.X : p # 1 => result.X[p] # result.X[1]

====
